---- MODULE Spec2Model ----
(***************************************************************************)
(* Model of the schematic wire autorouter of trace/eeschema/net_router.py  *)
(* (route_cwires and everything it calls).                                 *)
(*                                                                         *)
(* Coordinates are integers counting thousandths of a millimetre, so the   *)
(* grid pitch 1.27 mm is 1270 and the tolerances 0.1 / 0.01 / 0.005 are    *)
(* 100 / 10 / 5.                                                           *)
(* Arithmetic is exact: floating noise of the Python code is not modelled. *)
(* A point is <<x, y>>; a grid cell is <<gx, gy>>.                         *)
(* Path costs (f, g, h) are kept in units of 1/20 of a coordinate unit so  *)
(* that the 10% bend penalty and the 5% bonus are integers.                *)
(***************************************************************************)
EXTENDS Integers, Sequences, FiniteSets, TLC

\* ------------------------------------------------------------------------
\* Bounds of the model
\* ------------------------------------------------------------------------
MaxReqs == 2
MaxIterations == 24
MaxPathLen == 4

\* ------------------------------------------------------------------------
\* Program constants
\* ------------------------------------------------------------------------
GRID_SIZE == 1270
OverlapTol == 100
LineTol == 10
EndpointTol == 100
NearPinDist == 2000
ExactPinTol == 5

None == "None"
NoPath == << >>
NoTerm == [kind |-> "none"]

\* ------------------------------------------------------------------------
\* Arithmetic helpers
\* ------------------------------------------------------------------------
Abs(x) == IF x < 0 THEN -x ELSE x
Min2(a, b) == IF a < b THEN a ELSE b
Max2(a, b) == IF a > b THEN a ELSE b

\* Python round(n / d) for d > 0: nearest integer, ties to even.
PyRound(n, d) ==
    LET q == n \div d
        r == n % d
    IN  IF 2 * r < d THEN q
        ELSE IF 2 * r > d THEN q + 1
        ELSE IF q % 2 = 0 THEN q ELSE q + 1

\* round(v, 3): the value in thousandths of a mm is rounded to an integer.
Round3(v) == PyRound(v, 1)

\* Largest s in lo..hi with s * s <= n, by bisection (hi * hi fits 32 bits).
RECURSIVE ISqrtIn(_, _, _)
ISqrtIn(n, lo, hi) ==
    IF lo >= hi THEN lo
    ELSE LET mid == (lo + hi + 1) \div 2
         IN  IF mid * mid <= n THEN ISqrtIn(n, mid, hi) ELSE ISqrtIn(n, lo, mid - 1)

ISqrt(n) == ISqrtIn(n, 0, 46340)

\* a * a < b * b * l for naturals, computed without leaving 32 bits.
\* With s = ISqrt(l), e = l - s * s and a = b * s + r the comparison is
\* 2 * s * r + r * r / b < b * e.
SqLess(a, b, l) ==
    LET s == ISqrt(l)
        r == a - b * s
    IN  IF a <= b * s THEN ~(a = b * s /\ s * s = l)
        ELSE IF s * s = l \/ a >= b * (s + 1) THEN FALSE
        ELSE 2 * s * r + (r * r) \div b < b * (l - s * s)

Last(s) == s[Len(s)]
SeqToSet(s) == {s[i] : i \in 1..Len(s)}

\* ------------------------------------------------------------------------
\* wire_helpers.py
\* ------------------------------------------------------------------------
DistSq(p1, p2) ==
    (p1[1] - p2[1]) * (p1[1] - p2[1]) + (p1[2] - p2[2]) * (p1[2] - p2[2])

\* euclidean_distance(p1, p2) < tol, tol a whole number of units.  The
\* squares are taken only of differences below tol, to stay within 32 bits.
DistLess(p1, p2, tol) ==
    /\ Abs(p1[1] - p2[1]) < tol
    /\ Abs(p1[2] - p2[2]) < tol
    /\ DistSq(p1, p2) < tol * tol
\* euclidean_distance(p1, p2) > tol
DistGreater(p1, p2, tol) ==
    \/ Abs(p1[1] - p2[1]) > tol
    \/ Abs(p1[2] - p2[2]) > tol
    \/ DistSq(p1, p2) > tol * tol
\* euclidean_distance(p1, p2) < 0.6 * grid_size  (5 * d < 3 * grid_size)
DistLessPinTol(p1, p2) ==
    /\ Abs(p1[1] - p2[1]) < GRID_SIZE
    /\ Abs(p1[2] - p2[2]) < GRID_SIZE
    /\ 25 * DistSq(p1, p2) < 9 * GRID_SIZE * GRID_SIZE

\* point_on_segment(point, seg_start, seg_end, tolerance = 0.6 * grid_size).
\* The distance from the point to its projection is |cross| / sqrt(len_sq).
point_on_segment(point, seg_start, seg_end) ==
    LET vx == seg_end[1] - seg_start[1]
        vy == seg_end[2] - seg_start[2]
        px == point[1] - seg_start[1]
        py == point[2] - seg_start[2]
        seg_len_sq == vx * vx + vy * vy
        dot == px * vx + py * vy
        cross == px * vy - py * vx
        \* a point within the tolerance of the segment is within it of the
        \* segment's bounding box: decided first, to stay within 32 bits
        near == /\ Min2(seg_start[1], seg_end[1]) - GRID_SIZE < point[1]
                /\ point[1] < Max2(seg_start[1], seg_end[1]) + GRID_SIZE
                /\ Min2(seg_start[2], seg_end[2]) - GRID_SIZE < point[2]
                /\ point[2] < Max2(seg_start[2], seg_end[2]) + GRID_SIZE
    IN  IF seg_len_sq = 0 THEN DistLessPinTol(point, seg_start)
        ELSE IF ~near THEN FALSE
        ELSE IF dot < 0 \/ dot > seg_len_sq THEN FALSE
        ELSE SqLess(5 * Abs(cross), 3 * GRID_SIZE, seg_len_sq)

\* ------------------------------------------------------------------------
\* Geometry kernel of net_router.py
\* ------------------------------------------------------------------------
manhattan_distance(p1, p2) == Abs(p1[1] - p2[1]) + Abs(p1[2] - p2[2])

\* A box is <<min_x, min_y, max_x, max_y>>.
point_in_rect(point, box) ==
    /\ box[1] <= point[1] /\ point[1] <= box[3]
    /\ box[2] <= point[2] /\ point[2] <= box[4]

\* One edge of the Liang-Barsky clip.  st = [ok, t0n, t0d, t1n, t1d] holds
\* the parameter interval [t0n/t0d, t1n/t1d] with positive denominators.
ClipEdge(st, p, q) ==
    IF ~st.ok THEN st
    ELSE IF p = 0 THEN (IF q < 0 THEN [st EXCEPT !.ok = FALSE] ELSE st)
    ELSE LET rn == IF p < 0 THEN -q ELSE q
             rd == IF p < 0 THEN -p ELSE p
         IN  IF p < 0
             THEN IF rn * st.t1d > st.t1n * rd THEN [st EXCEPT !.ok = FALSE]
                  ELSE IF rn * st.t0d > st.t0n * rd
                       THEN [st EXCEPT !.t0n = rn, !.t0d = rd]
                       ELSE st
             ELSE IF rn * st.t0d < st.t0n * rd THEN [st EXCEPT !.ok = FALSE]
                  ELSE IF rn * st.t1d < st.t1n * rd
                       THEN [st EXCEPT !.t1n = rn, !.t1d = rd]
                       ELSE st

segment_intersects_rect(seg_start, seg_end, box) ==
    LET dx == seg_end[1] - seg_start[1]
        dy == seg_end[2] - seg_start[2]
        s0 == [ok |-> TRUE, t0n |-> 0, t0d |-> 1, t1n |-> 1, t1d |-> 1]
        s1 == ClipEdge(s0, -dx, seg_start[1] - box[1])
        s2 == ClipEdge(s1, dx, box[3] - seg_start[1])
        s3 == ClipEdge(s2, -dy, seg_start[2] - box[2])
        s4 == ClipEdge(s3, dy, box[4] - seg_start[2])
    IN  IF dx = 0 /\ dy = 0 THEN point_in_rect(seg_start, box)
        ELSE s4.ok /\ s4.t0n * s4.t1d < s4.t1n * s4.t0d

point_in_component(point, component_bboxes) ==
    \E i \in 1..Len(component_bboxes) : point_in_rect(point, component_bboxes[i])

segment_intersects_component(seg_start, seg_end, component_bboxes) ==
    \E i \in 1..Len(component_bboxes) :
        segment_intersects_rect(seg_start, seg_end, component_bboxes[i])

is_horizontal_segment(seg_start, seg_end, tolerance) ==
    Abs(seg_start[2] - seg_end[2]) < tolerance

is_vertical_segment(seg_start, seg_end, tolerance) ==
    Abs(seg_start[1] - seg_end[1]) < tolerance

ranges_overlap(a1, a2, b1, b2, tolerance) ==
    LET a_min == Min2(a1, a2)
        a_max == Max2(a1, a2)
        b_min == Min2(b1, b2)
        b_max == Max2(b1, b2)
    IN  a_max > b_min + tolerance /\ b_max > a_min + tolerance

\* Variant of segments_overlap_parallel: the orientation of the second
\* segment is not tested, only whether its extent reaches the first one's line.
segments_overlap_parallel_AnyOrientation(s1a, s1b, s2a, s2b, tolerance) ==
    LET seg1_horiz == is_horizontal_segment(s1a, s1b, tolerance)
        seg1_vert == is_vertical_segment(s1a, s1b, tolerance)
        horiz_hit == /\ seg1_horiz
                     /\ Min2(s2a[2], s2b[2]) - tolerance < s1a[2]
                     /\ s1a[2] < Max2(s2a[2], s2b[2]) + tolerance
        vert_hit == /\ seg1_vert
                    /\ Min2(s2a[1], s2b[1]) - tolerance < s1a[1]
                    /\ s1a[1] < Max2(s2a[1], s2b[1]) + tolerance
    IN  IF horiz_hit THEN ranges_overlap(s1a[1], s1b[1], s2a[1], s2b[1], tolerance)
        ELSE IF vert_hit THEN ranges_overlap(s1a[2], s1b[2], s2a[2], s2b[2], tolerance)
        ELSE FALSE

segments_overlap_parallel(s1a, s1b, s2a, s2b, tolerance) ==
    LET seg1_horiz == is_horizontal_segment(s1a, s1b, tolerance)
        seg1_vert == is_vertical_segment(s1a, s1b, tolerance)
        seg2_horiz == is_horizontal_segment(s2a, s2b, tolerance)
        seg2_vert == is_vertical_segment(s2a, s2b, tolerance)
        horiz_hit == seg1_horiz /\ seg2_horiz /\ Abs(s1a[2] - s2a[2]) < tolerance
        vert_hit == seg1_vert /\ seg2_vert /\ Abs(s1a[1] - s2a[1]) < tolerance
    IN  IF horiz_hit THEN ranges_overlap(s1a[1], s1b[1], s2a[1], s2b[1], tolerance)
        ELSE IF vert_hit THEN ranges_overlap(s1a[2], s1b[2], s2a[2], s2b[2], tolerance)
        ELSE FALSE

\* existing_wires is a sequence of <<start, end>>.
segment_overlaps_any_wire(seg_start, seg_end, wires) ==
    \E i \in 1..Len(wires) :
        segments_overlap_parallel(seg_start, seg_end, wires[i][1], wires[i][2], OverlapTol)

\* ------------------------------------------------------------------------
\* Grid mapper
\* ------------------------------------------------------------------------
snap_to_grid(point) ==
    << PyRound(point[1], GRID_SIZE) * GRID_SIZE, PyRound(point[2], GRID_SIZE) * GRID_SIZE >>

grid_to_world(grid_pos) == << grid_pos[1] * GRID_SIZE, grid_pos[2] * GRID_SIZE >>

world_to_grid(world_pos) ==
    << PyRound(world_pos[1], GRID_SIZE), PyRound(world_pos[2], GRID_SIZE) >>

\* The four neighbours, stably sorted by Manhattan distance to the goal cell.
get_neighbors(grid_pos, goal_grid) ==
    LET x == grid_pos[1]
        y == grid_pos[2]
        neighbors == << <<x + 1, y>>, <<x - 1, y>>, <<x, y + 1>>, <<x, y - 1>> >>
        dist_to_goal(i) == Abs(neighbors[i][1] - goal_grid[1]) + Abs(neighbors[i][2] - goal_grid[2])
        rank(i) == 1 + Cardinality({j \in 1..4 :
                        \/ dist_to_goal(j) < dist_to_goal(i)
                        \/ dist_to_goal(j) = dist_to_goal(i) /\ j < i})
    IN  [k \in 1..4 |-> neighbors[CHOOSE i \in 1..4 : rank(i) = k]]

\* ------------------------------------------------------------------------
\* find_point_on_same_net_wire: index of the first same-net wire the point
\* lies on (tolerance 0.6 * grid_size), 0 when there is none.
\* same_net_wires is a sequence of <<start, end, wire_dict>>.
\* ------------------------------------------------------------------------
find_point_on_same_net_wire(point, same_net) ==
    LET hits == {i \in 1..Len(same_net) :
                    point_on_segment(point, same_net[i][1], same_net[i][2])}
    IN  IF hits = {} THEN 0 ELSE CHOOSE i \in hits : \A j \in hits : i <= j

\* ------------------------------------------------------------------------
\* astar_pathfind.  ctx = [start, goal, bboxes, wires, same_net, pins, net]
\* holds the arguments of the call; pins is the dict pin_positions as the
\* sequence of its items <<position, net>> in insertion order.
\* An open-set entry is [f, g, tie, pos, path].
\* ------------------------------------------------------------------------
MoveCost == 20 * GRID_SIZE
BendPenalty == 2 * GRID_SIZE
SameNetBonus == GRID_SIZE

is_pin_position(grid_pos, ctx) ==
    grid_pos = world_to_grid(ctx.start) \/ grid_pos = world_to_grid(ctx.goal)

\* Index of the first pin within 0.6 * grid_size of the point, 0 if none.
FirstPinNear(point, pins) ==
    LET near == {i \in 1..Len(pins) : DistLessPinTol(point, pins[i][1])}
    IN  IF near = {} THEN 0 ELSE CHOOSE i \in near : \A j \in near : i <= j

\* Variant of StepRejected: the parallel-overlap test is left out.
StepRejected_NoOverlap(cur, neighbor, ctx) ==
    LET current_world == grid_to_world(cur.pos)
        neighbor_world == grid_to_world(neighbor)
        neighbor_is_pin == is_pin_position(neighbor, ctx)
        current_is_pin == is_pin_position(cur.pos, ctx)
        near_pin == \/ manhattan_distance(neighbor_world, ctx.start) < NearPinDist
                    \/ manhattan_distance(neighbor_world, ctx.goal) < NearPinDist
    IN  \/ /\ ~(neighbor_is_pin \/ current_is_pin \/ near_pin)
           /\ point_in_component(neighbor_world, ctx.bboxes)
        \/ /\ ~current_is_pin
           /\ ~neighbor_is_pin
           /\ segment_intersects_component(current_world, neighbor_world, ctx.bboxes)

\* Variant of StepRejected: the start and goal cells are tested against the
\* obstacle boxes like any other cell.
StepRejected_NoExempt(cur, neighbor, ctx) ==
    LET current_world == grid_to_world(cur.pos)
        neighbor_world == grid_to_world(neighbor)
    IN  \/ point_in_component(neighbor_world, ctx.bboxes)
        \/ segment_intersects_component(current_world, neighbor_world, ctx.bboxes)
        \/ segment_overlaps_any_wire(current_world, neighbor_world, ctx.wires)

\* Variant of StepRejected: the step's segment is not tested against the
\* obstacle boxes, only the neighbour cell is.
StepRejected_PointOnly(cur, neighbor, ctx) ==
    LET current_world == grid_to_world(cur.pos)
        neighbor_world == grid_to_world(neighbor)
        neighbor_is_pin == is_pin_position(neighbor, ctx)
        current_is_pin == is_pin_position(cur.pos, ctx)
        near_pin == \/ manhattan_distance(neighbor_world, ctx.start) < NearPinDist
                    \/ manhattan_distance(neighbor_world, ctx.goal) < NearPinDist
    IN  \/ /\ ~(neighbor_is_pin \/ current_is_pin \/ near_pin)
           /\ point_in_component(neighbor_world, ctx.bboxes)
        \/ segment_overlaps_any_wire(current_world, neighbor_world, ctx.wires)

\* Lines 550-578: the obstacle, segment and parallel-overlap tests.
StepRejected(cur, neighbor, ctx) ==
    LET current_world == grid_to_world(cur.pos)
        neighbor_world == grid_to_world(neighbor)
        neighbor_is_pin == is_pin_position(neighbor, ctx)
        current_is_pin == is_pin_position(cur.pos, ctx)
        near_pin == \/ manhattan_distance(neighbor_world, ctx.start) < NearPinDist
                    \/ manhattan_distance(neighbor_world, ctx.goal) < NearPinDist
    IN  \/ /\ ~(neighbor_is_pin \/ current_is_pin \/ near_pin)
           /\ point_in_component(neighbor_world, ctx.bboxes)
        \/ /\ ~current_is_pin
           /\ ~neighbor_is_pin
           /\ segment_intersects_component(current_world, neighbor_world, ctx.bboxes)
        \/ segment_overlaps_any_wire(current_world, neighbor_world, ctx.wires)

\* Variant of PinHit: pins are ignored for a request without a net.
PinHit_SkipsNoNet(neighbor, ctx) ==
    IF is_pin_position(neighbor, ctx) \/ ctx.net = None THEN 0
    ELSE FirstPinNear(grid_to_world(neighbor), ctx.pins)

\* Lines 580-602: 0 when no pin is involved, else the index of the deciding pin.
PinHit(neighbor, ctx) ==
    IF is_pin_position(neighbor, ctx) THEN 0
    ELSE FirstPinNear(grid_to_world(neighbor), ctx.pins)

\* Variant of PinIsSameNet: the request's net is not tested for absence.
PinIsSameNet_NoGuard(i, ctx) == ctx.pins[i][2] = ctx.net

PinIsSameNet(i, ctx) == ctx.net # None /\ ctx.pins[i][2] = ctx.net

\* Lines 604-631: the cost of the step from cur to neighbor.
StepCost(cur, neighbor, ctx) ==
    LET current_world == grid_to_world(cur.pos)
        neighbor_world == grid_to_world(neighbor)
        prev == cur.path[Len(cur.path) - 1]
        bend == /\ Len(cur.path) > 1
                /\ \/ Abs((current_world[1] - prev[1]) - (neighbor_world[1] - current_world[1])) > LineTol
                   \/ Abs((current_world[2] - prev[2]) - (neighbor_world[2] - current_world[2])) > LineTol
        \* manhattan distance to the wire midpoint, doubled to stay integral
        dist2(p, w) == Abs(2 * p[1] - (w[1][1] + w[2][1])) + Abs(2 * p[2] - (w[1][2] + w[2][2]))
        closer == \E i \in 1..Len(ctx.same_net) :
                      dist2(neighbor_world, ctx.same_net[i]) < dist2(current_world, ctx.same_net[i])
    IN  MoveCost + (IF bend THEN BendPenalty ELSE 0) - (IF closer THEN SameNetBonus ELSE 0)

\* Variant of NewEntry: the entry inherits the counter of the entry it was
\* expanded from.
NewEntry_StaleTie(cur, neighbor, ctx, tie) ==
    LET g_score == cur.g + StepCost(cur, neighbor, ctx)
        h_score == 20 * manhattan_distance(grid_to_world(neighbor), ctx.goal)
    IN  [f |-> g_score + h_score, g |-> g_score, tie |-> cur.tie, pos |-> neighbor,
         path |-> Append(cur.path, grid_to_world(neighbor))]

\* Lines 633-643: the entry pushed for an accepted neighbour
NewEntry(cur, neighbor, ctx, tie) ==
    LET g_score == cur.g + StepCost(cur, neighbor, ctx)
        h_score == 20 * manhattan_distance(grid_to_world(neighbor), ctx.goal)
    IN  [f |-> g_score + h_score, g |-> g_score, tie |-> tie, pos |-> neighbor,
         path |-> Append(cur.path, grid_to_world(neighbor))]

\* The neighbour loop of lines 544-643 from its i-th neighbour on.
\* Result: [done, path, info, open, tie]; done means the function returned.
RECURSIVE ExpandNeighbors(_, _, _, _, _, _, _)
ExpandNeighbors(i, nbrs, cur, closed, ctx, open, tie) ==
    IF i > Len(nbrs)
    THEN [done |-> FALSE, path |-> NoPath, info |-> NoTerm, open |-> open, tie |-> tie]
    ELSE LET neighbor == nbrs[i]
             hit == PinHit(neighbor, ctx)
         IN  IF neighbor \in closed \/ StepRejected(cur, neighbor, ctx)
             THEN ExpandNeighbors(i + 1, nbrs, cur, closed, ctx, open, tie)
             ELSE IF hit # 0
             THEN IF PinIsSameNet(hit, ctx)
                  THEN [done |-> TRUE,
                        path |-> Append(cur.path, ctx.pins[hit][1]),
                        info |-> [kind |-> "pin", pin |-> ctx.pins[hit][1],
                                  pin_net |-> ctx.pins[hit][2],
                                  point |-> ctx.pins[hit][1]],
                        open |-> open, tie |-> tie]
                  ELSE ExpandNeighbors(i + 1, nbrs, cur, closed, ctx, open, tie)
             ELSE ExpandNeighbors(i + 1, nbrs, cur, closed, ctx,
                                  open \cup {NewEntry(cur, neighbor, ctx, tie + 1)}, tie + 1)

\* heapq.heappop: the entry with the least (f, g, tie).
KeyLess(a, b) ==
    \/ a.f < b.f
    \/ a.f = b.f /\ a.g < b.g
    \/ a.f = b.f /\ a.g = b.g /\ a.tie < b.tie

HeapMin(open) == CHOOSE e \in open : \A o \in open : o = e \/ KeyLess(e, o)

\* Variant of AstarIteration: the same-net-wire test comes before the goal
\* test.
AstarIteration_WireFirst(open_in, closed, tie, ctx) ==
    LET cur == HeapMin(open_in)
        open == open_in \ {cur}
        start_grid == world_to_grid(ctx.start)
        goal_grid == world_to_grid(ctx.goal)
        current_world == grid_to_world(cur.pos)
        hit == IF cur.pos # start_grid
               THEN find_point_on_same_net_wire(current_world, ctx.same_net)
               ELSE 0
        exp == ExpandNeighbors(1, get_neighbors(cur.pos, goal_grid), cur,
                               closed \cup {cur.pos}, ctx, open, tie)
    IN  IF cur.pos \in closed
        THEN [done |-> FALSE, path |-> NoPath, info |-> NoTerm,
              open |-> open, closed |-> closed, tie |-> tie]
        ELSE IF hit # 0
        THEN [done |-> TRUE, path |-> cur.path,
              info |-> [kind |-> "wire", wire |-> ctx.same_net[hit][3],
                        wire_start |-> ctx.same_net[hit][1],
                        wire_end |-> ctx.same_net[hit][2],
                        point |-> snap_to_grid(current_world)],
              open |-> open, closed |-> closed \cup {cur.pos}, tie |-> tie]
        ELSE IF cur.pos = goal_grid
        THEN [done |-> TRUE, path |-> Append(cur.path, ctx.goal), info |-> NoTerm,
              open |-> open, closed |-> closed \cup {cur.pos}, tie |-> tie]
        ELSE [done |-> exp.done, path |-> exp.path, info |-> exp.info,
              open |-> exp.open, closed |-> closed \cup {cur.pos}, tie |-> exp.tie]

\* Variant of AstarIteration: a popped entry is expanded whether or not its
\* cell is closed already.
AstarIteration_Reexpands(open_in, closed, tie, ctx) ==
    LET cur == HeapMin(open_in)
        open == open_in \ {cur}
        start_grid == world_to_grid(ctx.start)
        goal_grid == world_to_grid(ctx.goal)
        current_world == grid_to_world(cur.pos)
        hit == IF cur.pos # start_grid
               THEN find_point_on_same_net_wire(current_world, ctx.same_net)
               ELSE 0
        exp == ExpandNeighbors(1, get_neighbors(cur.pos, goal_grid), cur,
                               closed \cup {cur.pos}, ctx, open, tie)
    IN  IF cur.pos = goal_grid
        THEN [done |-> TRUE, path |-> Append(cur.path, ctx.goal), info |-> NoTerm,
              open |-> open, closed |-> closed \cup {cur.pos}, tie |-> tie]
        ELSE IF hit # 0
        THEN [done |-> TRUE, path |-> cur.path,
              info |-> [kind |-> "wire", wire |-> ctx.same_net[hit][3],
                        wire_start |-> ctx.same_net[hit][1],
                        wire_end |-> ctx.same_net[hit][2],
                        point |-> snap_to_grid(current_world)],
              open |-> open, closed |-> closed \cup {cur.pos}, tie |-> tie]
        ELSE [done |-> exp.done, path |-> exp.path, info |-> exp.info,
              open |-> exp.open, closed |-> closed \cup {cur.pos}, tie |-> exp.tie]

\* One iteration of the while loop (lines 509-643) on the popped entry.
\* Result: [done, path, info, open, closed, tie].
AstarIteration(open_in, closed, tie, ctx) ==
    LET cur == HeapMin(open_in)
        open == open_in \ {cur}
        start_grid == world_to_grid(ctx.start)
        goal_grid == world_to_grid(ctx.goal)
        current_world == grid_to_world(cur.pos)
        hit == IF cur.pos # start_grid
               THEN find_point_on_same_net_wire(current_world, ctx.same_net)
               ELSE 0
        exp == ExpandNeighbors(1, get_neighbors(cur.pos, goal_grid), cur,
                               closed \cup {cur.pos}, ctx, open, tie)
    IN  IF cur.pos \in closed
        THEN [done |-> FALSE, path |-> NoPath, info |-> NoTerm,
              open |-> open, closed |-> closed, tie |-> tie]
        ELSE IF cur.pos = goal_grid
        THEN [done |-> TRUE, path |-> Append(cur.path, ctx.goal), info |-> NoTerm,
              open |-> open, closed |-> closed \cup {cur.pos}, tie |-> tie]
        ELSE IF hit # 0
        THEN [done |-> TRUE, path |-> cur.path,
              info |-> [kind |-> "wire", wire |-> ctx.same_net[hit][3],
                        wire_start |-> ctx.same_net[hit][1],
                        wire_end |-> ctx.same_net[hit][2],
                        point |-> snap_to_grid(current_world)],
              open |-> open, closed |-> closed \cup {cur.pos}, tie |-> tie]
        ELSE [done |-> exp.done, path |-> exp.path, info |-> exp.info,
              open |-> exp.open, closed |-> closed \cup {cur.pos}, tie |-> exp.tie]

\* astar_pathfind as a function of its arguments: the loop of lines 509-643
\* run from the initial open set, << path, descriptor >> as result.
RECURSIVE RunSearch(_, _, _, _, _)
RunSearch(open, closed, tie, n, ctx) ==
    IF open = {} \/ n >= MaxIterations THEN << NoPath, NoTerm >>
    ELSE LET r == AstarIteration(open, closed, tie, ctx)
         IN  IF r.done THEN << r.path, r.info >>
             ELSE RunSearch(r.open, r.closed, r.tie, n + 1, ctx)

astar_pathfind(ctx) ==
    IF world_to_grid(ctx.start) = world_to_grid(ctx.goal)
    THEN << << ctx.start, ctx.goal >>, NoTerm >>
    ELSE RunSearch({[f |-> 0, g |-> 0, tie |-> 0, pos |-> world_to_grid(ctx.start),
                     path |-> << ctx.start >>]}, {}, 0, 0, ctx)


\* ------------------------------------------------------------------------
\* simplify_path (tolerance 0.01)
\* ------------------------------------------------------------------------
RECURSIVE SimplifyFrom(_, _, _)
SimplifyFrom(path, simplified, i) ==
    IF i > Len(path)
    THEN IF Last(simplified) # Last(path) THEN Append(simplified, Last(path)) ELSE simplified
    ELSE LET p_start == Last(simplified)
             p_current == path[i]
             is_horiz == Abs(p_start[2] - p_current[2]) < LineTol
             is_vert == Abs(p_start[1] - p_current[1]) < LineTol
             OnLine(k) == IF is_horiz THEN Abs(p_start[2] - path[k][2]) < LineTol
                          ELSE Abs(p_start[1] - path[k][1]) < LineTol
             best_idx == CHOOSE b \in i..Len(path) :
                             /\ \A k \in (i + 1)..b : OnLine(k)
                             /\ b = Len(path) \/ ~OnLine(b + 1)
         IN  IF ~is_horiz /\ ~is_vert
             THEN SimplifyFrom(path, Append(simplified, p_current), i + 1)
             ELSE SimplifyFrom(path, Append(simplified, path[best_idx]), best_idx + 1)

simplify_path(path) ==
    IF Len(path) <= 2 THEN path ELSE SimplifyFrom(path, << path[1] >>, 2)

\* ------------------------------------------------------------------------
\* split_path_into_wires.  uuid4() is modelled by a counter: the i-th wire
\* of the call gets the id uid0 + i - 1.
\* ------------------------------------------------------------------------
NewWire(p1, p2, uid) == [type |-> "wire", points |-> << p1, p2 >>, uid |-> uid]

\* Lines 755-785: a point within 0.005 of a pin-exact coordinate becomes the
\* first such coordinate the loop over the set meets, any other point is
\* rounded to 3 decimals.  pin_positions is the set as the sequence in which
\* the loop iterates over it.
PinOrRounded(point, pin_positions) ==
    LET hits == {k \in 1..Len(pin_positions) :
                    DistLess(point, pin_positions[k], ExactPinTol)}
    IN  IF hits # {}
        THEN pin_positions[CHOOSE k \in hits : \A j \in hits : k <= j]
        ELSE << Round3(point[1]), Round3(point[2]) >>

RECURSIVE SplitFrom(_, _, _, _, _)
SplitFrom(path, pin_positions, uid0, wires, i) ==
    IF i > Len(path) - 1 THEN wires
    ELSE LET prev_wire_end == Last(wires).points[2]
             start_point == IF i > 1 /\ DistLess(path[i], prev_wire_end, EndpointTol)
                            THEN prev_wire_end ELSE path[i]
             end_point == path[i + 1]
             wire == NewWire(PinOrRounded(start_point, pin_positions),
                             PinOrRounded(end_point, pin_positions), uid0 + i - 1)
         IN  SplitFrom(path, pin_positions, uid0, Append(wires, wire), i + 1)

split_path_into_wires(path, pin_positions, uid0) ==
    IF Len(path) < 2 THEN << >> ELSE SplitFrom(path, pin_positions, uid0, << >>, 1)

\* ------------------------------------------------------------------------
\* split_wire_at_point: the two halves, << >> when the wire is degenerate.
\* ------------------------------------------------------------------------
\* Variant of split_wire_at_point: the first half keeps the id of the wire
\* it was cut from.
split_wire_at_point_KeepsId(wire_dict, split_point, uid1, uid2) ==
    LET points == wire_dict.points
        split_point_rounded == << Round3(split_point[1]), Round3(split_point[2]) >>
    IN  IF Len(points) < 2 THEN << >>
        ELSE << NewWire(points[1], split_point_rounded, wire_dict.uid),
                NewWire(split_point_rounded, Last(points), uid2) >>

\* Lines 364-402
split_wire_at_point(wire_dict, split_point, uid1, uid2) ==
    LET points == wire_dict.points
        split_point_rounded == << Round3(split_point[1]), Round3(split_point[2]) >>
    IN  IF Len(points) < 2 THEN << >>
        ELSE << NewWire(points[1], split_point_rounded, uid1),
                NewWire(split_point_rounded, Last(points), uid2) >>


\* ------------------------------------------------------------------------
\* route_cwires: derivation of the routing context (lines 829-998).
\* trace_json is kept as the lists the loop of lines 840-857 sorts it into:
\*   wires       <<[type, points, uid], ...>>
\*   labels      <<[at, text], ...>>          glabels likewise
\*   components  <<[at, pins], ...>> with pins <<pin position, net name>>,
\*               the position being what transform_pin_coordinate_func
\*               returns for the pin
\*   sheets      <<[at, size], ...>>
\* ------------------------------------------------------------------------
existing_wire_dicts(tj) ==
    LET idx == {i \in 1..Len(tj.wires) : Len(tj.wires[i].points) >= 2}
        nth(k) == CHOOSE i \in idx : Cardinality({j \in idx : j <= i}) = k
    IN  [k \in 1..Cardinality(idx) |->
            << tj.wires[nth(k)].points[1], Last(tj.wires[nth(k)].points), tj.wires[nth(k)] >>]

InitialExistingWires(tj) ==
    LET ewd == existing_wire_dicts(tj)
    IN  [k \in 1..Len(ewd) |-> << ewd[k][1], ewd[k][2] >>]

RECURSIVE Flatten(_)
Flatten(ss) == IF ss = << >> THEN << >> ELSE Head(ss) \o Flatten(Tail(ss))

\* Every pin of every component in iteration order: <<position, net name>>.
AllPins(tj) == Flatten([i \in 1..Len(tj.components) |-> tj.components[i].pins])

HasNet(net_name) == net_name \notin {"NONE", "DNC", None}

\* Index of the first label at an endpoint of the wire, 0 if none.
FirstLabelAt(labels, wire_start, wire_end) ==
    LET hits == {i \in 1..Len(labels) :
                    /\ labels[i].text # ""
                    /\ \/ DistLess(labels[i].at, wire_start, EndpointTol)
                       \/ DistLess(labels[i].at, wire_end, EndpointTol)}
    IN  IF hits = {} THEN 0 ELSE CHOOSE i \in hits : \A j \in hits : i <= j

\* wire_to_net.get(uid) for an entry <<start, end, wire_dict>> (lines 864-935)
wire_to_net(tj, entry) ==
    LET l == FirstLabelAt(tj.labels, entry[1], entry[2])
        g == FirstLabelAt(tj.glabels, entry[1], entry[2])
        pins == AllPins(tj)
        touching == {i \in 1..Len(pins) :
                        /\ HasNet(pins[i][2])
                        /\ \/ DistLess(pins[i][1], entry[1], EndpointTol)
                           \/ DistLess(pins[i][1], entry[2], EndpointTol)}
    IN  IF l # 0 THEN tj.labels[l].text
        ELSE IF g # 0 THEN tj.glabels[g].text
        ELSE IF touching # {}
             THEN pins[CHOOSE i \in touching : \A j \in touching : i <= j][2]
        ELSE None

\* calculate_component_bbox: hull of the component position and its pins
calculate_component_bbox(comp) ==
    LET pts == {comp.at} \cup {comp.pins[i][1] : i \in 1..Len(comp.pins)}
    IN  << CHOOSE v \in {q[1] : q \in pts} : \A q \in pts : v <= q[1],
           CHOOSE v \in {q[2] : q \in pts} : \A q \in pts : v <= q[2],
           CHOOSE v \in {q[1] : q \in pts} : \A q \in pts : v >= q[1],
           CHOOSE v \in {q[2] : q \in pts} : \A q \in pts : v >= q[2] >>

calculate_sheet_bbox(sheet) ==
    << sheet.at[1], sheet.at[2], sheet.at[1] + sheet.size[1], sheet.at[2] + sheet.size[2] >>

component_bboxes(tj) ==
    [i \in 1..Len(tj.components) |-> calculate_component_bbox(tj.components[i])]
    \o [i \in 1..Len(tj.sheets) |-> calculate_sheet_bbox(tj.sheets[i])]

\* The dict all_pin_positions as its item sequence: a position keeps the
\* place of its first insertion and the net of its last one.
all_pin_positions(tj) ==
    LET pins == AllPins(tj)
        firsts == {i \in 1..Len(pins) : \A j \in 1..(i - 1) : pins[j][1] # pins[i][1]}
        nth(k) == CHOOSE i \in firsts : Cardinality({j \in firsts : j <= i}) = k
        last(pos) == CHOOSE i \in 1..Len(pins) :
                        /\ pins[i][1] = pos
                        /\ \A j \in (i + 1)..Len(pins) : pins[j][1] # pos
        pin_net(n) == IF HasNet(n) THEN n ELSE None
    IN  [k \in 1..Cardinality(firsts) |->
            << pins[nth(k)][1], pin_net(pins[last(pins[nth(k)][1])][2]) >>]

\* Variant of BuildSameNetWires: the wires routed earlier in the batch are
\* left out.
BuildSameNetWires_InputOnly(tj, routed, net_name) ==
    LET ewd == existing_wire_dicts(tj)
        FromInput(e) == wire_to_net(tj, e) = net_name
    IN  IF net_name = None THEN << >> ELSE SelectSeq(ewd, FromInput)

\* Variant of BuildSameNetWires: the wires routed earlier in the batch are
\* taken whatever their net.
BuildSameNetWires_AnyNet(tj, routed, net_name) ==
    LET ewd == existing_wire_dicts(tj)
        FromInput(e) == wire_to_net(tj, e) = net_name
    IN  IF net_name = None THEN << >>
        ELSE SelectSeq(ewd, FromInput)
             \o [i \in 1..Len(routed) |-> << routed[i][1], routed[i][2], routed[i][3] >>]

\* Lines 1009-1022: the same-net wires of a request
BuildSameNetWires(tj, routed, net_name) ==
    LET ewd == existing_wire_dicts(tj)
        FromInput(e) == wire_to_net(tj, e) = net_name
        FromBatch(e) == e[4] = net_name
        batch == SelectSeq(routed, FromBatch)
    IN  IF net_name = None THEN << >>
        ELSE SelectSeq(ewd, FromInput)
             \o [i \in 1..Len(batch) |-> << batch[i][1], batch[i][2], batch[i][3] >>]

\* Lines 1026-1032: the pins of a request
BuildRoutePins(tj, from_coord, to_coord) ==
    LET Far(e) == /\ DistGreater(e[1], from_coord, EndpointTol)
                  /\ DistGreater(e[1], to_coord, EndpointTol)
    IN  SelectSeq(all_pin_positions(tj), Far)


\* ------------------------------------------------------------------------
\* Inputs: schematics and the requests routed on them
\* ------------------------------------------------------------------------
Cell(x, y) == << x * GRID_SIZE, y * GRID_SIZE >>

InWire(uid, p1, p2) == [type |-> "wire", points |-> << p1, p2 >>, uid |-> uid]
Pin1(pos, net) == [at |-> pos, pins |-> << << pos, net >> >>]
Req(from_coord, to_coord, net_name) == << from_coord, to_coord, net_name >>

EmptySch == [wires |-> << >>, labels |-> << >>, glabels |-> << >>,
             components |-> << >>, sheets |-> << >>]

\* a horizontal wire on the grid, net A by a label at its left end
SchWire == [EmptySch EXCEPT
    !.wires = << InWire(1, Cell(-2, 0), Cell(2, 0)) >>,
    !.labels = << [at |-> Cell(-2, 0), text |-> "A"] >>]

\* the same wire crossed by a vertical wire without a net
SchCross == [SchWire EXCEPT
    !.wires = << InWire(1, Cell(-2, 0), Cell(2, 0)), InWire(2, Cell(0, -1), Cell(0, 1)) >>]

\* a horizontal wire 0.5 mm off the grid row, net A by a global label
SchOffset == [EmptySch EXCEPT
    !.wires = << InWire(1, << -2540, 500 >>, << 2540, 500 >>) >>,
    !.glabels = << [at |-> << 2540, 500 >>, text |-> "A"] >>]

\* single-pin components: net B on the row y = 0, no net one row below,
\* and a wire that takes net B from the pin it ends on
SchPins == [EmptySch EXCEPT
    !.components = << Pin1(Cell(0, 0), "B"), Pin1(Cell(0, 1), "NONE") >>,
    !.wires = << InWire(1, Cell(0, 0), Cell(0, -1)) >>]

\* a sheet covering the cells (1,-1), (1,0), (1,1)
SchBox == [EmptySch EXCEPT
    !.sheets = << [at |-> << 1000, -1500 >>, size |-> << 540, 3000 >>] >>]

\* the cell (3, 0) with a pin of net B on each of its four neighbours
SchWalled == [EmptySch EXCEPT
    !.components = << Pin1(Cell(2, 0), "B"), Pin1(Cell(4, 0), "B"),
                      Pin1(Cell(3, 1), "B"), Pin1(Cell(3, -1), "B") >>]

Scenes == {
    [tj |-> SchWalled,
     reqs |-> { Req(Cell(0, 0), Cell(3, 0), "A"), Req(Cell(3, 0), Cell(0, 0), "A"),
                Req(Cell(0, 0), Cell(1, 0), "A") }],
    [tj |-> EmptySch,
     reqs |-> { Req(Cell(0, 0), Cell(3, 0), n) : n \in {"A", None} }
         \cup { Req(Cell(1, 1), Cell(1, -1), n) : n \in {"A", None} }],
    [tj |-> EmptySch,
     reqs |-> { Req(Cell(0, 0), << 200, 300 >>, "A"), Req(Cell(1, 0), << 1274, 0 >>, "A"),
                Req(Cell(0, 0), << 2640, 200 >>, None) }],
    [tj |-> SchWire,
     reqs |-> { Req(Cell(-1, 1), Cell(-1, -1), "A"), Req(Cell(1, 1), Cell(1, -1), "A"),
                Req(Cell(-2, 1), Cell(-2, -1), "A") }],
    [tj |-> SchWire,
     reqs |-> { Req(Cell(1, 1), Cell(1, -1), None),
                Req(Cell(0, 0), << 300, 0 >>, "B"), Req(Cell(-1, 1), Cell(-1, -1), "B") }],
    [tj |-> SchCross,
     reqs |-> { Req(Cell(0, 0), Cell(2, 2), "B"), Req(Cell(1, 1), Cell(2, 1), "B"),
                Req(Cell(1, 1), Cell(1, -1), "A") }],
    [tj |-> SchOffset,
     reqs |-> { Req(Cell(0, 2), Cell(0, -2), "A"), Req(Cell(1, 1), Cell(1, -1), "A"),
                Req(Cell(-1, 1), << -1270, -1000 >>, None),
                Req(<< 300, 0 >>, Cell(3, 0), None) }],
    [tj |-> SchPins,
     reqs |-> { Req(Cell(-2, 0), Cell(2, 0), n) : n \in {"A", "B", None} }
         \cup { Req(Cell(-2, 0), << 200, 0 >>, "A") }],
    [tj |-> SchPins,
     reqs |-> { Req(Cell(-1, 1), Cell(1, 1), None), Req(Cell(-1, -2), Cell(1, -2), "B"),
                Req(<< 200, 1000 >>, << -200, 1200 >>, "B"),
                Req(Cell(-1, 0), Cell(2, 0), "B") }],
    [tj |-> SchBox,
     reqs |-> { Req(Cell(-1, 0), Cell(3, 0), "A"), Req(Cell(0, 1), Cell(1, 0), None),
                Req(Cell(0, 0), Cell(2, 0), None), Req(Cell(0, 0), Cell(3, 0), None) }]
}

\* All request lists of at most n requests over a set of requests
RECURSIVE Batches(_, _)
Batches(reqs, n) ==
    IF n = 0 THEN { << >> }
    ELSE LET shorter == Batches(reqs, n - 1)
         IN  shorter \cup { Append(b, r) : b \in shorter, r \in reqs }

\* ------------------------------------------------------------------------
\* State
\* ------------------------------------------------------------------------
VARIABLES
    trace_json,           \* the schematic handed to route_cwires
    cwire_routing_pairs,  \* the request list <<from, to, net>>
    req_idx,              \* position of the for loop of line 1008
    pc,                   \* "loop", "search", "returned", "done"
    existing_wires,       \* the shared wire-overlap list
    routed_wire_dicts,    \* <<start, end, wire_dict, net>> of the batch
    all_routed_wires,
    all_junctions,
    wires_to_remove,
    uuid_next,            \* next value of the uuid4() counter
    same_net_wires,       \* arguments of the running astar_pathfind call
    route_pin_positions,
    open_set,             \* locals of astar_pathfind
    closed_set,
    iterations,
    tie_breaker,
    path,                 \* result of astar_pathfind
    early_term_info,
    origin,               \* per emitted wire: [req, kind, parent]
    outcome               \* per finished request: how its search ended

vars == << trace_json, cwire_routing_pairs, req_idx, pc, existing_wires,
           routed_wire_dicts, all_routed_wires, all_junctions, wires_to_remove,
           uuid_next, same_net_wires, route_pin_positions, open_set, closed_set,
           iterations, tie_breaker, path, early_term_info, origin, outcome >>

FirstUuid == 100

CurReq == cwire_routing_pairs[req_idx]

AstarCtx ==
    [start |-> CurReq[1], goal |-> CurReq[2],
     bboxes |-> component_bboxes(trace_json),
     wires |-> existing_wires,
     same_net |-> same_net_wires,
     pins |-> route_pin_positions,
     net |-> CurReq[3]]

Init ==
    /\ \E sc \in Scenes :
          /\ trace_json = sc.tj
          /\ cwire_routing_pairs \in Batches(sc.reqs, MaxReqs)
          /\ existing_wires = InitialExistingWires(sc.tj)
    /\ req_idx = 1
    /\ pc = "loop"
    /\ routed_wire_dicts = << >>
    /\ all_routed_wires = << >>
    /\ all_junctions = << >>
    /\ wires_to_remove = << >>
    /\ uuid_next = FirstUuid
    /\ same_net_wires = << >>
    /\ route_pin_positions = << >>
    /\ open_set = {}
    /\ closed_set = {}
    /\ iterations = 0
    /\ tie_breaker = 0
    /\ path = NoPath
    /\ early_term_info = NoTerm
    /\ origin = << >>
    /\ outcome = << >>


\* ------------------------------------------------------------------------
\* route_cwires: what lines 1045-1132 do with the result of one search
\* ------------------------------------------------------------------------
\* Variant of NeedsSplit: one far end is enough.
NeedsSplit_EitherEnd(termination_point, wire_start, wire_end) ==
    \/ DistGreater(termination_point, wire_start, EndpointTol)
    \/ DistGreater(termination_point, wire_end, EndpointTol)

\* Lines 1071-1074: the termination point is at neither end of the hit wire
NeedsSplit(termination_point, wire_start, wire_end) ==
    /\ DistGreater(termination_point, wire_start, EndpointTol)
    /\ DistGreater(termination_point, wire_end, EndpointTol)

\* Variant of NewJunctions: a pin termination gets a junction too.
NewJunctions_AnyTermination(info, uid) ==
    IF info.kind # "none"
    THEN << [type |-> "junction", at |-> info.point, uid |-> uid] >>
    ELSE << >>

\* Lines 1060-1065: the junctions a result adds
NewJunctions(info, uid) ==
    IF info.kind = "wire"
    THEN << [type |-> "junction", at |-> info.point, uid |-> uid] >>
    ELSE << >>

\* Lines 1067-1083: the replacement records of the hit wire, << >> if none
SplitHalves(info, uid) ==
    IF info.kind = "wire" /\ NeedsSplit(info.point, info.wire_start, info.wire_end)
    THEN split_wire_at_point(info.wire, info.point, uid, uid + 1)
    ELSE << >>

\* Variant of NewRemovals: the hit wire is queued whether or not it was
\* split.
NewRemovals_Unsplit(info, halves) ==
    IF info.kind = "wire" THEN << info.wire.uid >> ELSE << >>

\* Variant of NewRemovals: the id of the first half is queued.
NewRemovals_QueuesHalf(info, halves) ==
    IF halves # << >> THEN << halves[1].uid >> ELSE << >>

\* Line 1079: the ids queued for deletion
NewRemovals(info, halves) ==
    IF halves # << >> THEN << info.wire.uid >> ELSE << >>

\* Lines 1057, 1100-1110: the path handed to split_path_into_wires
FinalPath(p, info, from_coord, to_coord) ==
    LET cut == IF info.kind = "none" THEN p ELSE [p EXCEPT ![Len(p)] = info.point]
        simp == simplify_path(cut)
        head == [simp EXCEPT ![1] = from_coord]
    IN  IF info.kind = "none" THEN [head EXCEPT ![Len(head)] = to_coord] ELSE head

\* Lines 1113-1117: the set pin_positions in every order a loop over it can
\* take; the order of a Python set is fixed by the hashes of its elements.
PinOrders(info, from_coord, to_coord) ==
    LET other == IF info.kind = "none" THEN to_coord ELSE info.point
    IN  IF other = from_coord THEN { << from_coord >> }
        ELSE { << from_coord, other >>, << other, from_coord >> }

\* Line 1118
PathWires(p, info, from_coord, to_coord, uid, pin_positions) ==
    split_path_into_wires(FinalPath(p, info, from_coord, to_coord), pin_positions, uid)

\* Variant of RouteOutput: a request without a path gets the straight wire.
RouteOutput_Fallback(p, info, from_coord, to_coord, uid, pin_positions) ==
    LET q == IF p = NoPath THEN << from_coord, to_coord >> ELSE p
        junctions == NewJunctions(info, uid)
        halves == SplitHalves(info, uid + Len(junctions))
    IN  [junctions |-> junctions,
         halves |-> halves,
         removals |-> NewRemovals(info, halves),
         path_wires |-> PathWires(q, info, from_coord, to_coord,
                                  uid + Len(junctions) + Len(halves), pin_positions)]

\* Lines 1045-1118: everything one search result makes route_cwires emit.
\* uuid4() is called for the junction, then the halves, then the path wires.
RouteOutput(p, info, from_coord, to_coord, uid, pin_positions) ==
    IF p = NoPath
    THEN [junctions |-> << >>, halves |-> << >>, removals |-> << >>, path_wires |-> << >>]
    ELSE LET junctions == NewJunctions(info, uid)
             halves == SplitHalves(info, uid + Len(junctions))
         IN  [junctions |-> junctions,
              halves |-> halves,
              removals |-> NewRemovals(info, halves),
              path_wires |-> PathWires(p, info, from_coord, to_coord,
                                       uid + Len(junctions) + Len(halves), pin_positions)]

\* Lines 1085-1095, 1125-1132: the entries appended to existing_wires and
\* to routed_wire_dicts for emitted wires
Segs(wires) == [i \in 1..Len(wires) |-> << wires[i].points[1], Last(wires[i].points) >>]
Tracked(wires, net) ==
    [i \in 1..Len(wires) |-> << wires[i].points[1], Last(wires[i].points), wires[i], net >>]

\* ------------------------------------------------------------------------
\* Actions
\* ------------------------------------------------------------------------
\* Lines 1008-1043 and 480-503: take the next request, build its context and
\* enter astar_pathfind (which returns at once when both ends share a cell).
BeginRequest ==
    /\ pc = "loop"
    /\ req_idx <= Len(cwire_routing_pairs)
    /\ same_net_wires' = BuildSameNetWires(trace_json, routed_wire_dicts, CurReq[3])
    /\ route_pin_positions' = BuildRoutePins(trace_json, CurReq[1], CurReq[2])
    /\ closed_set' = {}
    /\ iterations' = 0
    /\ tie_breaker' = 0
    /\ early_term_info' = NoTerm
    /\ IF world_to_grid(CurReq[1]) = world_to_grid(CurReq[2])
       THEN /\ path' = << CurReq[1], CurReq[2] >>
            /\ open_set' = {}
            /\ pc' = "returned"
       ELSE /\ path' = NoPath
            /\ open_set' = {[f |-> 0, g |-> 0, tie |-> 0,
                             pos |-> world_to_grid(CurReq[1]), path |-> << CurReq[1] >>]}
            /\ pc' = "search"
    /\ UNCHANGED << trace_json, cwire_routing_pairs, req_idx, existing_wires,
                    routed_wire_dicts, all_routed_wires, all_junctions,
                    wires_to_remove, uuid_next, origin, outcome >>

\* Variant of AstarStep: a search that returns empties the same-net-wire
\* list it was given.
AstarStep_ConsumesList ==
    /\ pc = "search"
    /\ open_set # {}
    /\ iterations < MaxIterations
    /\ LET r == AstarIteration(open_set, closed_set, tie_breaker, AstarCtx)
       IN  /\ iterations' = iterations + 1
           /\ open_set' = r.open
           /\ closed_set' = r.closed
           /\ tie_breaker' = r.tie
           /\ IF r.done
              THEN /\ path' = r.path
                   /\ early_term_info' = r.info
                   /\ pc' = "returned"
                   /\ same_net_wires' = << >>
              ELSE UNCHANGED << path, early_term_info, pc, same_net_wires >>
    /\ UNCHANGED << trace_json, cwire_routing_pairs, req_idx, existing_wires,
                    routed_wire_dicts, all_routed_wires, all_junctions,
                    wires_to_remove, uuid_next,
                    route_pin_positions, origin, outcome >>

\* Lines 509-643: one iteration of the search loop.
AstarStep ==
    /\ pc = "search"
    /\ open_set # {}
    /\ iterations < MaxIterations
    /\ LET r == AstarIteration(open_set, closed_set, tie_breaker, AstarCtx)
       IN  /\ iterations' = iterations + 1
           /\ open_set' = r.open
           /\ closed_set' = r.closed
           /\ tie_breaker' = r.tie
           /\ IF r.done
              THEN /\ path' = r.path
                   /\ early_term_info' = r.info
                   /\ pc' = "returned"
              ELSE UNCHANGED << path, early_term_info, pc >>
    /\ UNCHANGED << trace_json, cwire_routing_pairs, req_idx, existing_wires,
                    routed_wire_dicts, all_routed_wires, all_junctions,
                    wires_to_remove, uuid_next, same_net_wires,
                    route_pin_positions, origin, outcome >>

\* Variant of AstarGiveUp: the loop ends only when the open set is empty.
AstarGiveUp_NeverCaps ==
    /\ pc = "search"
    /\ open_set = {}
    /\ path' = NoPath
    /\ early_term_info' = NoTerm
    /\ pc' = "returned"
    /\ UNCHANGED << trace_json, cwire_routing_pairs, req_idx, existing_wires,
                    routed_wire_dicts, all_routed_wires, all_junctions,
                    wires_to_remove, uuid_next, same_net_wires,
                    route_pin_positions, open_set, closed_set, iterations,
                    tie_breaker, origin, outcome >>

\* Lines 509, 645-646: the loop ends without a result.
AstarGiveUp ==
    /\ pc = "search"
    /\ open_set = {} \/ iterations >= MaxIterations
    /\ path' = NoPath
    /\ early_term_info' = NoTerm
    /\ pc' = "returned"
    /\ UNCHANGED << trace_json, cwire_routing_pairs, req_idx, existing_wires,
                    routed_wire_dicts, all_routed_wires, all_junctions,
                    wires_to_remove, uuid_next, same_net_wires,
                    route_pin_positions, open_set, closed_set, iterations,
                    tie_breaker, origin, outcome >>

\* Lines 1045-1132: book the result of the search and go to the next request.
FinishRequest ==
    /\ pc = "returned"
    /\ \E pin_positions \in PinOrders(early_term_info, CurReq[1], CurReq[2]) :
       LET out == RouteOutput(path, early_term_info, CurReq[1], CurReq[2], uuid_next,
                              pin_positions)
           emitted == out.halves \o out.path_wires
       IN  /\ all_junctions' = all_junctions \o out.junctions
           /\ wires_to_remove' = wires_to_remove \o out.removals
           /\ all_routed_wires' = all_routed_wires \o emitted
           /\ existing_wires' = existing_wires \o Segs(emitted)
           /\ routed_wire_dicts' = routed_wire_dicts \o Tracked(emitted, CurReq[3])
           /\ uuid_next' = uuid_next + Len(out.junctions) + Len(emitted)
           /\ origin' = origin
                  \o [i \in 1..Len(out.halves) |->
                         [req |-> req_idx, kind |-> "split",
                          parent |-> early_term_info.wire.uid]]
                  \o [i \in 1..Len(out.path_wires) |->
                         [req |-> req_idx, kind |-> "route", parent |-> 0]]
           /\ outcome' = Append(outcome,
                  [kind |-> IF path = NoPath THEN "nopath" ELSE early_term_info.kind,
                   split |-> out.halves # << >>])
    /\ req_idx' = req_idx + 1
    /\ pc' = "loop"
    /\ UNCHANGED << trace_json, cwire_routing_pairs, same_net_wires,
                    route_pin_positions, open_set, closed_set, iterations,
                    tie_breaker, path, early_term_info >>

\* Lines 826-827, 1134: route_cwires returns.
Return ==
    /\ pc = "loop"
    /\ req_idx > Len(cwire_routing_pairs)
    /\ pc' = "done"
    /\ UNCHANGED << trace_json, cwire_routing_pairs, req_idx, existing_wires,
                    routed_wire_dicts, all_routed_wires, all_junctions,
                    wires_to_remove, uuid_next, same_net_wires,
                    route_pin_positions, open_set, closed_set, iterations,
                    tie_breaker, path, early_term_info, origin, outcome >>

Next == BeginRequest \/ AstarStep \/ AstarGiveUp \/ FinishRequest \/ Return

Spec == Init /\ [][Next]_vars

\* The condition of the while loop of line 509: AstarStep can be taken
\* exactly when it holds (AstarIteration is defined for every open set that
\* is not empty).
LoopCondition == pc = "search" /\ open_set # {} /\ iterations < MaxIterations

\* astar_pathfind is sequential code: while the loop condition holds the loop
\* takes its next turn, and when it fails the function returns.  The first
\* conjunct is weak fairness of AstarStep with its enabling condition
\* written out.
LiveSpec ==
    /\ Spec
    /\ ([]<>(~LoopCondition) \/ []<><<AstarStep>>_vars)
    /\ WF_vars(AstarGiveUp)

TypeOK ==
    /\ pc \in {"loop", "search", "returned", "done"}
    /\ req_idx \in 1..(Len(cwire_routing_pairs) + 1)
    /\ Len(origin) = Len(all_routed_wires)
    /\ Len(existing_wires) = Len(trace_json.wires) + Len(all_routed_wires)
    /\ iterations \in 0..MaxIterations


\* ========================================================================
\* Properties
\* ========================================================================
InputUids == {trace_json.wires[i].uid : i \in 1..Len(trace_json.wires)}
EmittedIdx == 1..Len(all_routed_wires)
P1(w) == w.points[1]
P2(w) == w.points[2]
SameCellReq == world_to_grid(CurReq[1]) = world_to_grid(CurReq[2])

\* The grid vertices the search of the current request stepped on: the path
\* without its first point (fromPoint) and without the appended toPoint or
\* pin position.
GridVertices ==
    IF path = NoPath \/ SameCellReq THEN << >>
    ELSE IF early_term_info.kind = "wire" THEN SubSeq(path, 2, Len(path))
    ELSE SubSeq(path, 2, Len(path) - 1)

\* C1: every emitted wire record (route wires and split halves) has its two
\* points equal in x or equal in y within tolerance (stated with the wider
\* tolerance 0.1).
C1_AxisAligned ==
    \A i \in EmittedIdx :
        \/ is_horizontal_segment(P1(all_routed_wires[i]), P2(all_routed_wires[i]), OverlapTol)
        \/ is_vertical_segment(P1(all_routed_wires[i]), P2(all_routed_wires[i]), OverlapTol)

\* C2: after a batch no two distinct segments among the input wires that are
\* not queued for deletion and the emitted wires, at least one of them
\* emitted, are collinear and overlapping.
KeptInputSegs ==
    {<< P1(trace_json.wires[i]), Last(trace_json.wires[i].points) >> :
        i \in {j \in 1..Len(trace_json.wires) :
                  trace_json.wires[j].uid \notin SeqToSet(wires_to_remove)}}

C2_NoParallelOverlap ==
    pc = "done" =>
        \A i \in EmittedIdx :
            LET a == all_routed_wires[i]
            IN  /\ \A j \in EmittedIdx \ {i} :
                      ~segments_overlap_parallel(P1(a), P2(a), P1(all_routed_wires[j]),
                                                 P2(all_routed_wires[j]), OverlapTol)
                /\ \A seg \in KeptInputSegs :
                      ~segments_overlap_parallel(P1(a), P2(a), seg[1], seg[2], OverlapTol)

\* C3: no wire id occurs twice in the deletion list, and at most two
\* replacement records are emitted for any one wire id.
C3_DeletedOnce ==
    /\ \A i, j \in 1..Len(wires_to_remove) :
          wires_to_remove[i] = wires_to_remove[j] => i = j
    /\ \A u \in SeqToSet(wires_to_remove) :
          Cardinality({i \in EmittedIdx :
              origin[i].kind = "split" /\ origin[i].parent = u}) <= 2

\* C4 as stated: every id in the deletion list is the id of an input wire,
\* and no emitted record is in the deletion list.
C4_DeletesOnlyInput ==
    /\ \A i \in 1..Len(wires_to_remove) : wires_to_remove[i] \in InputUids
    /\ \A i \in EmittedIdx : all_routed_wires[i].uid \notin SeqToSet(wires_to_remove)

\* C4 amended: every id in the deletion list is the id of a record that was
\* split, which is an input wire or a record emitted for a request earlier
\* than every request that split it.
C4_DeletesKnownWires ==
    \A u \in SeqToSet(wires_to_remove) :
        /\ \E k \in EmittedIdx : origin[k].kind = "split" /\ origin[k].parent = u
        /\ \/ u \in InputUids
           \/ \E j \in EmittedIdx :
                 /\ all_routed_wires[j].uid = u
                 /\ \A k \in EmittedIdx :
                       origin[k].kind = "split" /\ origin[k].parent = u
                           => origin[j].req < origin[k].req

\* a record emitted earlier in the batch has been split and queued
C4_Witness ==
    \E j \in EmittedIdx : all_routed_wires[j].uid \in SeqToSet(wires_to_remove)


\* The records emitted by the step under way, as indices of the new lists
NewIdx == (Len(all_routed_wires) + 1)..Len(all_routed_wires')

\* C5: a route that ends on a same-net wire adds exactly one junction, at the
\* termination point T; exactly when T is farther than 0.1 from both ends of
\* the hit wire, the wire's id is queued and the two records [start, T] and
\* [T, end] are emitted; otherwise nothing is split or queued.
C5_Step ==
    (pc = "returned" /\ early_term_info.kind = "wire") =>
        LET T == early_term_info.point
            hit == early_term_info.wire
            mid == /\ DistGreater(T, hit.points[1], EndpointTol)
                   /\ DistGreater(T, hit.points[2], EndpointTol)
            n == Len(all_routed_wires)
            splits == {i \in NewIdx : origin'[i].kind = "split"}
        IN  /\ Len(all_junctions') = Len(all_junctions) + 1
            /\ Last(all_junctions').at = T
            /\ SubSeq(all_junctions', 1, Len(all_junctions)) = all_junctions
            /\ IF mid
               THEN /\ wires_to_remove' = Append(wires_to_remove, hit.uid)
                    /\ splits = {n + 1, n + 2}
                    /\ all_routed_wires'[n + 1].points = << hit.points[1], T >>
                    /\ all_routed_wires'[n + 2].points = << T, hit.points[2] >>
               ELSE /\ wires_to_remove' = wires_to_remove
                    /\ splits = {}

C5_WireTermination == [][C5_Step]_vars

C5_Witness ==
    \E i, j \in 1..Len(outcome) :
        /\ outcome[i].kind = "wire" /\ outcome[i].split
        /\ outcome[j].kind = "wire" /\ ~outcome[j].split

\* C6: while request k is routed the shared wire-overlap list holds every
\* input wire and every record emitted for requests 1..k-1; the list only
\* grows; and no grid step of the path found for request k is collinear and
\* overlapping with a segment of the list.
IsPrefix(s, t) == Len(s) <= Len(t) /\ SubSeq(t, 1, Len(s)) = s

GridSteps ==
    LET cells == << grid_to_world(world_to_grid(CurReq[1])) >> \o GridVertices
    IN  [i \in 1..(Len(cells) - 1) |-> << cells[i], cells[i + 1] >>]

C6_State ==
    /\ pc \in {"search", "returned"} =>
          /\ \A i \in 1..Len(trace_json.wires) :
                << P1(trace_json.wires[i]), Last(trace_json.wires[i].points) >>
                    \in SeqToSet(existing_wires)
          /\ \A i \in EmittedIdx :
                origin[i].req < req_idx =>
                    << P1(all_routed_wires[i]), P2(all_routed_wires[i]) >>
                        \in SeqToSet(existing_wires)
    /\ pc = "returned" =>
          \A i \in 1..Len(GridSteps) :
              \A k \in 1..Len(existing_wires) :
                  ~segments_overlap_parallel(GridSteps[i][1], GridSteps[i][2],
                        existing_wires[k][1], existing_wires[k][2], OverlapTol)

C6_SharedWireList ==
    [][C6_State /\ C6_State' /\ IsPrefix(existing_wires, existing_wires')]_vars

\* a later request whose straight connection would run on an emitted wire
C6_Witness ==
    /\ pc = "returned"
    /\ req_idx > 1
    /\ Len(GridSteps) > 0
    /\ \E i \in EmittedIdx :
          segments_overlap_parallel(CurReq[1], CurReq[2], P1(all_routed_wires[i]),
                                    P2(all_routed_wires[i]), OverlapTol)

\* C7: when fromPoint and toPoint map to the same grid cell the search
\* returns [fromPoint, toPoint] without a descriptor and without popping a
\* cell, and route_cwires emits exactly the record [fromPoint, toPoint], no
\* junction and no deletion.
C7_SameCell ==
    /\ PyRound(CurReq[1][1], GRID_SIZE) = PyRound(CurReq[2][1], GRID_SIZE)
    /\ PyRound(CurReq[1][2], GRID_SIZE) = PyRound(CurReq[2][2], GRID_SIZE)

C7_Step ==
    (pc = "returned" /\ C7_SameCell) =>
        /\ path = << CurReq[1], CurReq[2] >>
        /\ early_term_info = NoTerm
        /\ iterations = 0
        /\ closed_set = {}
        /\ Len(all_routed_wires') = Len(all_routed_wires) + 1
        /\ Last(all_routed_wires').points = << CurReq[1], CurReq[2] >>
        /\ all_junctions' = all_junctions
        /\ wires_to_remove' = wires_to_remove

C7_Trivial == [][C7_Step]_vars

\* C8: a request whose search returns no path changes none of the wire list,
\* junction list, deletion list, wire-overlap list and same-net bookkeeping;
\* the loop goes on, and at the return every request has been handled.
C8_Step ==
    /\ (pc = "returned" /\ path = NoPath) =>
          /\ UNCHANGED << all_routed_wires, all_junctions, wires_to_remove,
                          existing_wires, routed_wire_dicts >>
          /\ req_idx' = req_idx + 1
          /\ pc' = "loop"
    /\ pc' = "done" => Len(outcome') = Len(cwire_routing_pairs)

C8_NoPathNoOp == [][C8_Step]_vars

C8_Witness ==
    \E k \in 1..(Len(outcome) - 1) :
        /\ outcome[k].kind = "nopath"
        /\ outcome[k + 1].kind # "nopath"

\* C9: the search of a request without a net returns no early-termination
\* descriptor, and route_cwires adds no junction, split or deletion for it.
C9_Step ==
    (pc = "returned" /\ CurReq[3] = None) =>
        /\ early_term_info.kind = "none"
        /\ all_junctions' = all_junctions
        /\ wires_to_remove' = wires_to_remove
        /\ \A i \in NewIdx : origin'[i].kind = "route"

C9_NoNetNoEarlyTermination == [][C9_Step]_vars

\* a request without a net whose path touches an earlier wire without a net
C9_Witness ==
    /\ pc = "returned"
    /\ CurReq[3] = None
    /\ \E j \in 1..Len(routed_wire_dicts) :
          /\ routed_wire_dicts[j][4] = None
          /\ \E k \in 1..Len(GridVertices) :
                point_on_segment(GridVertices[k], routed_wire_dicts[j][1],
                                 routed_wire_dicts[j][2])

\* C10: no grid vertex of a returned path, the start and goal cells apart,
\* lies within 0.6 * pitch of a pin entry whose net is absent or differs
\* from the request's net, and the search never ends early at such a pin.
OtherNetPin(k) ==
    route_pin_positions[k][2] = None \/ route_pin_positions[k][2] # CurReq[3]

C10_PinsBlock ==
    pc = "returned" =>
        /\ \A i \in 1..Len(GridVertices) :
              world_to_grid(GridVertices[i])
                    \notin {world_to_grid(CurReq[1]), world_to_grid(CurReq[2])}
                => \A k \in 1..Len(route_pin_positions) :
                      OtherNetPin(k) =>
                          ~DistLessPinTol(GridVertices[i], route_pin_positions[k][1])
        /\ early_term_info.kind = "pin" =>
              /\ CurReq[3] # None
              /\ early_term_info.pin_net = CurReq[3]
              /\ \E k \in 1..Len(route_pin_positions) :
                    /\ route_pin_positions[k][1] = early_term_info.pin
                    /\ ~OtherNetPin(k)

\* a path was found although a pin of another net sits on the straight line
C10_Witness ==
    /\ pc = "returned"
    /\ Len(GridVertices) > 0
    /\ early_term_info.kind = "none"
    /\ \E k \in 1..Len(route_pin_positions) :
          /\ OtherNetPin(k)
          /\ point_on_segment(route_pin_positions[k][1], CurReq[1], CurReq[2])

\* The obstacle boxes the search of the current request is given
Boxes == component_bboxes(trace_json)

\* Is the point the centre of the start cell or of the goal cell?
AtPinCell(p) ==
    world_to_grid(p) \in {world_to_grid(CurReq[1]), world_to_grid(CurReq[2])}

\* C11 as stated: no step of a returned path between two cells other than
\* the start and goal cells intersects an obstacle box, and a path whose
\* request has both ends outside all boxes has no step that intersects one.
C11_DetoursAroundBoxes ==
    pc = "returned" =>
        \A i \in 1..Len(GridSteps) :
            \/ AtPinCell(GridSteps[i][1]) \/ AtPinCell(GridSteps[i][2])
                  => point_in_component(CurReq[1], Boxes) \/ point_in_component(CurReq[2], Boxes)
            \/ ~segment_intersects_component(GridSteps[i][1], GridSteps[i][2], Boxes)

\* C11 amended: no step of a returned path between two cells other than the
\* start and goal cells intersects an obstacle box.
C11_InnerStepsClear ==
    pc = "returned" =>
        \A i \in 1..Len(GridSteps) :
            ~AtPinCell(GridSteps[i][1]) /\ ~AtPinCell(GridSteps[i][2])
                => ~segment_intersects_component(GridSteps[i][1], GridSteps[i][2], Boxes)

\* a path was found around a box that the straight connection runs through
C11_Witness ==
    /\ pc = "returned"
    /\ segment_intersects_component(CurReq[1], CurReq[2], Boxes)
    /\ \E i \in 1..Len(GridSteps) :
          ~AtPinCell(GridSteps[i][1]) /\ ~AtPinCell(GridSteps[i][2])

\* C12: when the search expands a cell, a neighbour that is the goal cell,
\* or any neighbour of the start cell, is put on the open set whatever the
\* obstacle boxes are, and the goal cell whatever the pins are (unless the
\* cell is closed, the step runs along a wire, or the search returns first);
\* a pin never ends the search at the start cell or the goal cell.
C12_Step ==
    LET cur == HeapMin(open_set)
        start_grid == world_to_grid(CurReq[1])
        goal_grid == world_to_grid(CurReq[2])
        expanded == /\ pc = "search" /\ open_set # {} /\ iterations < MaxIterations
                    /\ cur.pos \notin closed_set
                    /\ cur.pos # goal_grid
                    /\ ~(pc' = "returned" /\ early_term_info'.kind = "wire")
        nbrs == { << cur.pos[1] + d[1], cur.pos[2] + d[2] >> :
                      d \in { << 1, 0 >>, << -1, 0 >>, << 0, 1 >>, << 0, -1 >> } }
        Pushed(nb) == \E e \in open_set' \ open_set :
                          e.pos = nb /\ e.path = Append(cur.path, grid_to_world(nb))
        NoPinNear(nb) == \A k \in 1..Len(route_pin_positions) :
                             ~DistLessPinTol(grid_to_world(nb), route_pin_positions[k][1])
    IN  expanded =>
          /\ \A nb \in nbrs :
                /\ nb \notin closed_set \cup {cur.pos}
                /\ ~segment_overlaps_any_wire(grid_to_world(cur.pos), grid_to_world(nb),
                                              existing_wires)
                /\ nb = goal_grid \/ (cur.pos = start_grid /\ NoPinNear(nb))
                => Pushed(nb) \/ pc' = "returned"
          /\ pc' = "returned" /\ early_term_info'.kind = "pin"
                => \E nb \in nbrs \ {start_grid, goal_grid} :
                       DistLessPinTol(grid_to_world(nb), early_term_info'.pin)

C12_EndpointsExempt == [][C12_Step]_vars

\* a goal inside an obstacle box, or with a pin of another net in its cell,
\* has been reached
C12_Witness ==
    /\ pc = "returned"
    /\ path # NoPath
    /\ ~SameCellReq
    /\ early_term_info.kind = "none"
    /\ \/ point_in_component(grid_to_world(world_to_grid(CurReq[2])), Boxes)
       \/ \E k \in 1..Len(route_pin_positions) :
             /\ OtherNetPin(k)
             /\ DistLessPinTol(grid_to_world(world_to_grid(CurReq[2])),
                               route_pin_positions[k][1])

\* The records the step under way emits for the route itself, in order
NewRoute ==
    LET idx == {i \in NewIdx : origin'[i].kind = "route"}
        nth(k) == CHOOSE i \in idx : Cardinality({j \in idx : j <= i}) = k
    IN  [k \in 1..Cardinality(idx) |-> all_routed_wires'[nth(k)]]

\* The point the route of the current request ends at
RouteEnd ==
    IF early_term_info.kind = "none" THEN CurReq[2] ELSE early_term_info.point

\* The records of the step under way are one chain from fromPoint to RouteEnd
IsChain ==
    /\ Len(NewRoute) >= 1
    /\ \A k \in 1..Len(NewRoute) : Len(NewRoute[k].points) = 2
    /\ NewRoute[1].points[1] = CurReq[1]
    /\ \A k \in 2..Len(NewRoute) :
          NewRoute[k].points[1] = NewRoute[k - 1].points[2]
    /\ NewRoute[Len(NewRoute)].points[2] = RouteEnd

\* C13: the records emitted for a request with a path form one chain of
\* 2-point records from fromPoint to toPoint, or to the early-termination
\* point, each record starting exactly where the previous one ends.
C13_Step == (pc = "returned" /\ path # NoPath) => IsChain

C13_Chain == [][C13_Step]_vars

\* One segment is horizontal, the other vertical, each longer than 0.1
Perpendicular(a, b) ==
    LET Horiz(q) == Abs(q[1][2] - q[2][2]) < OverlapTol /\ Abs(q[1][1] - q[2][1]) > OverlapTol
        Vert(q) == Abs(q[1][1] - q[2][1]) < OverlapTol /\ Abs(q[1][2] - q[2][2]) > OverlapTol
    IN  (Horiz(a) /\ Vert(b)) \/ (Vert(a) /\ Horiz(b))

\* The steps the search can try from the cell it pops next
CandidateSteps ==
    LET cur == HeapMin(open_set)
    IN  { << grid_to_world(cur.pos),
             grid_to_world(<< cur.pos[1] + d[1], cur.pos[2] + d[2] >>) >> :
              d \in { << 1, 0 >>, << -1, 0 >>, << 0, 1 >>, << 0, -1 >> } }

\* C16: the parallel-overlap test rejects no step that is perpendicular to
\* the wire it is compared with, whether or not the two share a point.
C16_CrossingAllowed ==
    (pc = "search" /\ open_set # {}) =>
        \A step \in CandidateSteps :
            \A k \in 1..Len(existing_wires) :
                Perpendicular(step, existing_wires[k])
                    => ~segments_overlap_parallel(step[1], step[2], existing_wires[k][1],
                                                  existing_wires[k][2], OverlapTol)

\* a returned path has a step that crosses a wire of the list at 90 degrees,
\* the wire passing between the two cells of the step or through one of them
C16_Witness ==
    /\ pc = "returned"
    /\ \E i \in 1..Len(GridSteps) :
          \E k \in 1..Len(existing_wires) :
              /\ Perpendicular(GridSteps[i], existing_wires[k])
              /\ LET st == GridSteps[i]
                     w == existing_wires[k]
                     Within(v, p, q) == Min2(p, q) <= v /\ v <= Max2(p, q)
                 IN  \/ /\ Within(w[1][2], st[1][2], st[2][2])
                        /\ Within(st[1][1], w[1][1], w[2][1])
                        /\ st[1][1] = st[2][1]
                     \/ /\ Within(w[1][1], st[1][1], st[2][1])
                        /\ Within(st[1][2], w[1][2], w[2][2])
                        /\ st[1][2] = st[2][2]

\* The schematic has no wire, no obstacle box and no pin
BareSchematic ==
    /\ trace_json.wires = << >>
    /\ Boxes = << >>
    /\ AllPins(trace_json) = << >>

SameRowOrColumn(a, b) ==
    \/ world_to_grid(a)[1] = world_to_grid(b)[1]
    \/ world_to_grid(a)[2] = world_to_grid(b)[2]

\* C17: a single request on a bare schematic whose endpoints lie in the same
\* grid row or column, and for which the search returns a path, yields
\* exactly the record [fromPoint, toPoint], no junction and no deletion.
C17_Step ==
    (/\ pc = "returned"
     /\ Len(cwire_routing_pairs) = 1
     /\ BareSchematic
     /\ SameRowOrColumn(CurReq[1], CurReq[2])
     /\ path # NoPath) =>
        /\ Len(all_routed_wires') = 1
        /\ all_routed_wires'[1].points = << CurReq[1], CurReq[2] >>
        /\ all_junctions' = << >>
        /\ wires_to_remove' = << >>

C17_StraightRun == [][C17_Step]_vars

\* Two requests of net A on the empty schematic whose straight runs cross
\* at the grid vertex (1, 0)
OrderReqA == Req(Cell(1, 1), Cell(1, -1), "A")
OrderReqB == Req(Cell(0, 0), Cell(3, 0), "A")

Geometry == { all_routed_wires[i].points : i \in EmittedIdx }

StraightRun(r) == << r[1], r[2] >>

\* C18: request order is observable.  For the batch of OrderReqA and
\* OrderReqB on the empty schematic, the request routed first gets its
\* straight run as one record and the request routed second does not (it
\* ends on the first one's wire), so the two orders emit different wire
\* geometry.
C18_OrderObservable ==
    (pc = "done" /\ trace_json = EmptySch) =>
        /\ cwire_routing_pairs = << OrderReqA, OrderReqB >> =>
              /\ StraightRun(OrderReqA) \in Geometry
              /\ StraightRun(OrderReqB) \notin Geometry
        /\ cwire_routing_pairs = << OrderReqB, OrderReqA >> =>
              /\ StraightRun(OrderReqB) \in Geometry
              /\ StraightRun(OrderReqA) \notin Geometry

\* the batch in the order B, A has been routed: A ended on B's wire at
\* (1, 0), which was split there
C18_Witness ==
    /\ pc = "done"
    /\ trace_json = EmptySch
    /\ cwire_routing_pairs = << OrderReqB, OrderReqA >>
    /\ << Cell(1, 1), Cell(1, 0) >> \in Geometry
    /\ Len(all_junctions) = 1
    /\ Len(wires_to_remove) = 1

\* the same batch in the order A, B has been routed
C18_OtherOrder ==
    /\ pc = "done"
    /\ trace_json = EmptySch
    /\ cwire_routing_pairs = << OrderReqA, OrderReqB >>
    /\ << Cell(0, 0), Cell(1, 0) >> \in Geometry

\* The point lies exactly on the segment from a to b
OnSegment(p, a, b) ==
    /\ (b[1] - a[1]) * (p[2] - a[2]) = (b[2] - a[2]) * (p[1] - a[1])
    /\ Min2(a[1], b[1]) <= p[1] /\ p[1] <= Max2(a[1], b[1])
    /\ Min2(a[2], b[2]) <= p[2] /\ p[2] <= Max2(a[2], b[2])

\* C19: when a route ends on a wire and the wire is split, the termination
\* point lies on the hit wire's segment and the two replacement records run
\* from the wire's start to the point and from the point to the wire's end
\* (so they are collinear with the wire, keep its orientation and their
\* lengths add up to its length).
C19_Step ==
    (/\ pc = "returned"
     /\ early_term_info.kind = "wire"
     /\ NeedsSplit(early_term_info.point, early_term_info.wire_start,
                   early_term_info.wire_end)) =>
        /\ OnSegment(early_term_info.point, early_term_info.wire_start,
                     early_term_info.wire_end)
        /\ \A i \in NewIdx :
              origin'[i].kind = "split" =>
                  /\ OnSegment(P1(all_routed_wires'[i]), early_term_info.wire_start,
                               early_term_info.wire_end)
                  /\ OnSegment(P2(all_routed_wires'[i]), early_term_info.wire_start,
                               early_term_info.wire_end)

C19_SplitOnWire == [][C19_Step]_vars

\* C20: astar_pathfind terminates.  Every iteration of its loop counts, also
\* one that pops a closed cell; the count never exceeds max_iterations; a
\* search that stands at the cap or at an empty open set returns no path and
\* no descriptor; and every search that was entered returns.
C20_Step ==
    pc = "search" =>
        /\ pc' = "search" => iterations' = iterations + 1
        /\ iterations' \in {iterations, iterations + 1}
        /\ (open_set = {} \/ iterations >= MaxIterations) =>
              /\ pc' = "returned"
              /\ path' = NoPath
              /\ early_term_info' = NoTerm
              /\ iterations' = iterations

C20_Terminates ==
    /\ [](iterations <= MaxIterations)
    /\ [][C20_Step]_vars
    /\ (pc = "search") ~> (pc = "returned")

\* a search for a walled-off goal has returned without a path at the cap,
\* cells still open
C20_Witness ==
    /\ pc = "returned"
    /\ trace_json = SchWalled
    /\ path = NoPath
    /\ early_term_info = NoTerm
    /\ iterations = MaxIterations
    /\ open_set # {}

\* a search has returned without a path because the open set ran empty
C20_WalledIn ==
    /\ pc = "returned"
    /\ path = NoPath
    /\ ~SameCellReq
    /\ iterations < MaxIterations
    /\ open_set = {}

\* ------------------------------------------------------------------------
\* simplify_path on its own: the function applied to a vertex sequence and
\* then to its own result.  path holds the input, outcome the results.
\* ------------------------------------------------------------------------
\* Vertices on three grid columns, on a grid row or less than the tolerance
\* 0.01 or less than twice the tolerance above it
SimplifyPoints == { << x, y >> : x \in {0, GRID_SIZE, 2 * GRID_SIZE}, y \in {0, 9, 18} }

RECURSIVE SeqsUpTo(_, _)
SeqsUpTo(S, n) ==
    IF n = 0 THEN { << >> }
    ELSE LET shorter == SeqsUpTo(S, n - 1)
         IN  shorter \cup { Append(q, p) : q \in shorter, p \in S }

InitSimplify ==
    /\ path \in { q \in SeqsUpTo(SimplifyPoints, MaxPathLen) : Len(q) >= 1 }
    /\ pc = "simplify"
    /\ outcome = << >>
    /\ trace_json = EmptySch
    /\ cwire_routing_pairs = << >>
    /\ existing_wires = << >>
    /\ req_idx = 1
    /\ routed_wire_dicts = << >>
    /\ all_routed_wires = << >>
    /\ all_junctions = << >>
    /\ wires_to_remove = << >>
    /\ uuid_next = FirstUuid
    /\ same_net_wires = << >>
    /\ route_pin_positions = << >>
    /\ open_set = {}
    /\ closed_set = {}
    /\ iterations = 0
    /\ tie_breaker = 0
    /\ early_term_info = NoTerm
    /\ origin = << >>

\* simplify_path applied to the input, then to the previous result
ApplySimplify ==
    /\ pc = "simplify"
    /\ Len(outcome) < 2
    /\ outcome' = Append(outcome,
                         simplify_path(IF outcome = << >> THEN path ELSE Last(outcome)))
    /\ UNCHANGED << trace_json, cwire_routing_pairs, req_idx, pc, existing_wires,
                    routed_wire_dicts, all_routed_wires, all_junctions,
                    wires_to_remove, uuid_next, same_net_wires,
                    route_pin_positions, open_set, closed_set, iterations,
                    tie_breaker, path, early_term_info, origin >>

NextSimplify == ApplySimplify

SpecSimplify == InitSimplify /\ [][NextSimplify]_vars

\* C15: simplify_path(simplify_path(p)) = simplify_path(p)
C15_Idempotent ==
    (pc = "simplify" /\ Len(outcome) = 2) => outcome[2] = outcome[1]


\* ------------------------------------------------------------------------
\* Order of the tests on a popped cell
\* ------------------------------------------------------------------------
\* Does the centre of the cell lie on a same-net wire of the running search?
OnSameNetWire(cell) ==
    find_point_on_same_net_wire(grid_to_world(cell), same_net_wires) # 0

\* C21: the goal test precedes the same-net-wire test and the start cell is
\* never tested.  A popped goal cell that is not closed yields the carried
\* path with toPoint appended and no descriptor, whatever wire it lies on; a
\* popped start cell never yields a wire termination.
C21_Step ==
    (pc = "search" /\ open_set # {} /\ iterations < MaxIterations) =>
        LET cur == HeapMin(open_set)
        IN  /\ (cur.pos = world_to_grid(CurReq[2]) /\ cur.pos \notin closed_set) =>
                  /\ pc' = "returned"
                  /\ path' = Append(cur.path, CurReq[2])
                  /\ early_term_info' = NoTerm
            /\ cur.pos = world_to_grid(CurReq[1]) =>
                  ~(pc' = "returned" /\ early_term_info'.kind = "wire")

C21_GoalBeforeWire == [][C21_Step]_vars

\* a search whose start cell and goal cell both lie on a same-net wire has
\* reached the goal
C21_Witness ==
    /\ pc = "returned"
    /\ ~SameCellReq
    /\ OnSameNetWire(world_to_grid(CurReq[1]))
    /\ OnSameNetWire(world_to_grid(CurReq[2]))
    /\ path # NoPath
    /\ Last(path) = CurReq[2]
    /\ early_term_info = NoTerm

\* ------------------------------------------------------------------------
\* Pin terminations
\* ------------------------------------------------------------------------
\* C22: a route that ends early on a same-net pin adds no junction, no split
\* half and no deletion; it emits at least one wire and the last one ends at
\* the pin position.
C22_Step ==
    (pc = "returned" /\ early_term_info.kind = "pin") =>
        /\ all_junctions' = all_junctions
        /\ wires_to_remove' = wires_to_remove
        /\ NewIdx # {}
        /\ \A i \in NewIdx : origin'[i].kind = "route"
        /\ P2(Last(all_routed_wires')) = early_term_info.pin

C22_PinTermination == [][C22_Step]_vars

\* a request has ended on a pin of its net and its wire, from fromPoint to
\* the pin, has been emitted
C22_Witness ==
    \E k \in 1..Len(outcome) :
        /\ outcome[k].kind = "pin"
        /\ \E i \in EmittedIdx :
              /\ origin[i].req = k
              /\ P1(all_routed_wires[i]) = cwire_routing_pairs[k][1]
              /\ \E j \in 1..Len(AllPins(trace_json)) :
                    AllPins(trace_json)[j] = << P2(all_routed_wires[i]), cwire_routing_pairs[k][3] >>

\* ------------------------------------------------------------------------
\* simplify_path on the paths the search returns
\* ------------------------------------------------------------------------
Horizontal(a, b) == Abs(a[2] - b[2]) < LineTol
Vertical(a, b) == Abs(a[1] - b[1]) < LineTol

\* C23: for every path the search returns, simplify_path keeps the first and
\* the last point, every consecutive pair of its result is horizontal or
\* vertical, no two consecutive segments have the same orientation and no
\* vertex occurs twice.
C23_SimplifyRaw ==
    (pc = "returned" /\ path # NoPath) =>
        LET sp == simplify_path(path)
        IN  /\ sp[1] = path[1]
            /\ Last(sp) = Last(path)
            /\ \A i \in 1..(Len(sp) - 1) :
                  Horizontal(sp[i], sp[i + 1]) \/ Vertical(sp[i], sp[i + 1])
            /\ \A i \in 1..(Len(sp) - 2) :
                  /\ ~(Horizontal(sp[i], sp[i + 1]) /\ Horizontal(sp[i + 1], sp[i + 2]))
                  /\ ~(Vertical(sp[i], sp[i + 1]) /\ Vertical(sp[i + 1], sp[i + 2]))
            /\ \A i, j \in 1..Len(sp) : i # j => sp[i] # sp[j]

\* ------------------------------------------------------------------------
\* The same-net-wire list of a request
\* ------------------------------------------------------------------------
\* The net recorded for the i-th emitted record: the net of the request that
\* emitted it, as route wire or as split half
RecordedNet(i) == cwire_routing_pairs[origin[i].req][3]

InputOfNet(net) ==
    LET ewd == existing_wire_dicts(trace_json)
        Keep(e) == wire_to_net(trace_json, e) = net
    IN  SelectSeq(ewd, Keep)

RECURSIVE EmittedOfNet(_, _)
EmittedOfNet(net, n) ==
    IF n = 0 THEN << >>
    ELSE LET before == EmittedOfNet(net, n - 1)
             w == all_routed_wires[n]
         IN  IF RecordedNet(n) = net
             THEN Append(before, << P1(w), P2(w), w >>)
             ELSE before

\* C24: the same-net-wire list of a request with a net is the input wires
\* of that net followed by the records emitted by the earlier requests whose
\* recorded net is that net, split halves included; a wire that was split
\* stays in the list.  (A request without a net gets the empty list.)
C24_SameNetList ==
    (pc \in {"search", "returned"}) =>
        IF CurReq[3] = None THEN same_net_wires = << >>
        ELSE same_net_wires
                 = InputOfNet(CurReq[3]) \o EmittedOfNet(CurReq[3], Len(all_routed_wires))

\* the list of a running search holds a wire that was split by an earlier
\* request, both halves, and a route wire of an earlier request
C24_Witness ==
    /\ pc = "search"
    /\ \E a, b, c, d \in 1..Len(same_net_wires) :
          /\ same_net_wires[a][3].uid \in SeqToSet(wires_to_remove)
          /\ b # c
          /\ \E i, j, r \in EmittedIdx :
                /\ origin[i].kind = "split" /\ same_net_wires[b][3] = all_routed_wires[i]
                /\ origin[j].kind = "split" /\ same_net_wires[c][3] = all_routed_wires[j]
                /\ origin[r].kind = "route" /\ same_net_wires[d][3] = all_routed_wires[r]

\* ------------------------------------------------------------------------
\* The tie-break counter
\* ------------------------------------------------------------------------
\* C25: the counter grows with every enqueue, so the entries of the open set
\* have pairwise different counters, none above the current counter value;
\* every entry a loop turn adds has a counter above the value before the
\* turn; and the entry a turn pops is, among the entries with its f and g,
\* the one with the least counter (the one enqueued first).
C25_Step ==
    pc = "search" =>
        /\ \A a, b \in open_set : a # b => a.tie # b.tie
        /\ \A a \in open_set : a.tie <= tie_breaker
        /\ \A a \in open_set' \ open_set : a.tie > tie_breaker /\ a.tie <= tie_breaker'
        /\ \A p \in open_set \ open_set' :
              /\ open_set \ open_set' = {p}
              /\ \A o \in open_set :
                    /\ p.f <= o.f
                    /\ o.f = p.f => p.g <= o.g
                    /\ (o.f = p.f /\ o.g = p.g /\ o # p) => p.tie < o.tie

C25_TieBreak == [][C25_Step]_vars

\* the search stands before a pop with two open entries of equal f and g
C25_Witness ==
    /\ pc = "search"
    /\ iterations > 0
    /\ iterations < MaxIterations
    /\ \E a, b \in open_set :
          /\ a # b
          /\ a.f = b.f /\ a.g = b.g
          /\ \A o \in open_set : a.f <= o.f /\ (o.f = a.f => a.g <= o.g)

\* ------------------------------------------------------------------------
\* The step cost
\* ------------------------------------------------------------------------
Sign(v) == IF v > 0 THEN 1 ELSE IF v < 0 THEN -1 ELSE 0

\* The direction of the move from point a to point b
Direction(a, b) == << Sign(b[1] - a[1]), Sign(b[2] - a[2]) >>

\* Twice the Manhattan distance from p to the midpoint of the wire w
MidDist2(p, w) ==
    Abs(2 * p[1] - (w[1][1] + w[2][1])) + Abs(2 * p[2] - (w[1][2] + w[2][2]))

\* The same-net wires whose midpoint is nearest to p
NearestSameNet(p) ==
    {i \in 1..Len(same_net_wires) :
        \A j \in 1..Len(same_net_wires) :
            MidDist2(p, same_net_wires[i]) <= MidDist2(p, same_net_wires[j])}

\* The step from the entry p to the entry e changes direction
StepBends(p, e) ==
    /\ Len(p.path) > 1
    /\ Direction(p.path[Len(p.path) - 1], grid_to_world(p.pos))
           # Direction(grid_to_world(p.pos), grid_to_world(e.pos))

\* The step from p to e gets nearer to the midpoint of the nearest same-net wire
StepNearsWire(p, e) ==
    \E i \in NearestSameNet(grid_to_world(p.pos)) :
        MidDist2(grid_to_world(e.pos), same_net_wires[i])
            < MidDist2(grid_to_world(p.pos), same_net_wires[i])

\* C26: the cost of a step is the pitch, plus 10% of it when the step's
\* direction differs from the previous step's direction, minus 5% of it
\* exactly when the step gets nearer to the midpoint of the nearest same-net
\* wire; g of a new entry is g of the popped entry plus that cost.
C26_Step ==
    pc = "search" =>
        \A p \in open_set \ open_set' :
            \A e \in open_set' \ open_set :
                e.g = p.g + MoveCost
                          + (IF StepBends(p, e) THEN BendPenalty ELSE 0)
                          - (IF StepNearsWire(p, e) THEN SameNetBonus ELSE 0)

C26_StepCost == [][C26_Step]_vars

\* ------------------------------------------------------------------------
\* The search and its arguments
\* ------------------------------------------------------------------------
\* C27: a search leaves the obstacle boxes, the wire-overlap list, the
\* same-net-wire list and the pin map alone, and what it returns is the
\* value of a function of its arguments.
C27_Step ==
    /\ pc = "search" =>
          /\ component_bboxes(trace_json') = component_bboxes(trace_json)
          /\ existing_wires' = existing_wires
          /\ same_net_wires' = same_net_wires
          /\ route_pin_positions' = route_pin_positions
    /\ pc = "returned" => << path, early_term_info >> = astar_pathfind(AstarCtx)

PathCells(p) == [k \in 1..Len(p) |-> world_to_grid(p[k])]

\* a carried path: the start point, then world positions of cells, each one
\* step in one axis from the cell before, from the start cell to the cell
\* of the entry, no cell twice
SimpleChain(e) ==
    LET cells == PathCells(e.path)
        n == Len(e.path)
    IN  /\ n >= 1
        /\ e.path[1] = AstarCtx.start
        /\ cells[1] = world_to_grid(AstarCtx.start)
        /\ cells[n] = e.pos
        /\ \A k \in 2..n : e.path[k] = grid_to_world(cells[k])
        /\ \A k \in 1..(n - 1) :
              Abs(cells[k + 1][1] - cells[k][1]) + Abs(cells[k + 1][2] - cells[k][2]) = 1
        /\ \A j, k \in 1..n : j # k => cells[j] # cells[k]

\* C28: during a search every open entry carries a simple 4-connected chain
\* from the start cell to its own cell, and a cell is expanded once: the
\* loop turn that pops an entry of a closed cell only removes the entry,
\* every other turn closes the popped cell.
C28_Step ==
    (pc = "search" /\ open_set # {} /\ iterations < MaxIterations) =>
        LET cur == HeapMin(open_set)
        IN  /\ \A e \in open_set : SimpleChain(e)
            /\ cur.pos \in closed_set =>
                  /\ open_set' = open_set \ {cur}
                  /\ closed_set' = closed_set
                  /\ pc' = "search"
            /\ cur.pos \notin closed_set =>
                  /\ closed_set' = closed_set \cup {cur.pos}
                  /\ pc' = "search" => \A e \in open_set' : e.pos \notin closed_set' \/ e \in open_set

C28_ClosedOnce == [][C28_Step]_vars

\* an entry of a cell that is closed already is about to be popped, and
\* some open entry carries a path of four vertices
C28_Witness ==
    /\ pc = "search"
    /\ open_set # {}
    /\ iterations < MaxIterations
    /\ HeapMin(open_set).pos \in closed_set
    /\ \E e \in open_set : Len(e.path) >= 4

\* ------------------------------------------------------------------------
\* Counts of the accumulated outputs
\* ------------------------------------------------------------------------
WireTerminations == {k \in 1..Len(outcome) : outcome[k].kind = "wire"}
SplitHalfRecords == {i \in 1..Len(all_routed_wires) : origin[i].kind = "split"}

\* C29: after every request there are as many junctions as requests that
\* ended on a same-net wire (hence at most as many as requests processed),
\* at most as many queued deletions as junctions, and twice as many
\* split-half records as queued deletions.
C29_OutputCounts ==
    /\ Len(outcome) = req_idx - 1 \/ pc = "done"
    /\ Len(all_junctions) = Cardinality(WireTerminations)
    /\ Len(all_junctions) <= Len(outcome)
    /\ Len(wires_to_remove) <= Len(all_junctions)
    /\ Cardinality(SplitHalfRecords) = 2 * Len(wires_to_remove)

\* two requests are done: one ended in the middle of a wire, which was
\* split, the other at the end of a wire, which was not
C29_Witness ==
    /\ pc = "loop"
    /\ Len(outcome) = 2
    /\ Len(all_junctions) = 2
    /\ Len(wires_to_remove) = 1
    /\ Cardinality(SplitHalfRecords) = 2

\* ------------------------------------------------------------------------
\* The input records and the ids of the emitted ones
\* ------------------------------------------------------------------------
JunctionUids == {all_junctions[k].uid : k \in 1..Len(all_junctions)}

\* the record at place i of the returned wires carries an id of its own
FreshId(i) ==
    /\ all_routed_wires[i].uid \notin InputUids
    /\ all_routed_wires[i].uid \notin JunctionUids
    /\ \A j \in EmittedIdx : j # i => all_routed_wires[j].uid # all_routed_wires[i].uid

\* C30: the schematic handed to route_cwires stays as it was through the
\* whole batch; both halves of a split carry ids that differ from each
\* other, from every id of an input wire and from every other emitted id;
\* a split input wire comes back as its id in the deletion list and as no
\* record of the returned wires.
C30_Step ==
    /\ trace_json' = trace_json
    /\ \A i \in EmittedIdx : origin[i].kind = "split" => FreshId(i)
    /\ \A k \in 1..Len(wires_to_remove) :
          /\ wires_to_remove[k] \in Int
          /\ wires_to_remove[k] \in InputUids =>
                \A i \in EmittedIdx :
                    /\ all_routed_wires[i].uid # wires_to_remove[k]
                    /\ \A w \in 1..Len(trace_json.wires) :
                          all_routed_wires[i] # trace_json.wires[w]
    /\ \A i \in EmittedIdx : all_routed_wires'[i] = all_routed_wires[i]

C30_InputKept == [][C30_Step]_vars

\* an input wire was split by one request and a later request has emitted
\* records too
C30_Witness ==
    /\ pc = "done"
    /\ \E k \in 1..Len(wires_to_remove) : wires_to_remove[k] \in InputUids
    /\ \E i, j \in EmittedIdx :
          /\ origin[i].kind = "split" /\ origin[i].parent \in InputUids
          /\ origin[j].req > origin[i].req

====
